---- MODULE Spec2Model ----
(***************************************************************************)
(* Model of the iolang front end: the character-level lexer (lex.go), the  *)
(* recursive-descent parser (Parse / parseRecurse) and their handoff over  *)
(* an unbuffered channel of tokens.                                        *)
(*                                                                         *)
(* Strings are sequences of one-character strings.  The lexer runs one     *)
(* state function per action; the tokens that function sends are queued in *)
(* sendq and leave it one by one, each by a rendezvous with the parser     *)
(* (the channel is unbuffered).  The parser handles one received token per *)
(* action, up to its next receive, returns and recursive calls included.   *)
(* The message tree lives in heap (node ids, 0 = nil), the activations of  *)
(* parseRecurse in stack.  produced and received are history variables:   *)
(* the tokens the lexer has handed to a channel send, and the tokens the   *)
(* parser has taken, in order.  The lexer and the parser share nothing but *)
(* the channel, so the parser's handling of a token is taken together with *)
(* its receive.                                                            *)
(*                                                                         *)
(* The second part models blocks (block.go) and DoMessage: the block last  *)
(* created is in blk, the evaluations in progress (DoMessage at the        *)
(* bottom, block activations above it) in frames, and the operation the    *)
(* evaluator performed last, with the value it handed back once it has     *)
(* returned, in ret.  Message.Eval is not part of the sources at hand: an  *)
(* evaluation sends its messages with its own locals as the caller's       *)
(* locals, and the value it yields is an input of the step at which it     *)
(* returns.                                                                *)
(***************************************************************************)
EXTENDS Integers, Sequences, FiniteSets, TLC

VARIABLES input, srcErr, pos, lexState, sendq, closed, stack, heap, result,
          produced, received, blk, made, frames, ret

parseVars == <<input, srcErr, pos, lexState, sendq, closed, stack, heap, result,
               produced, received>>

blockVars == <<blk, made, frames, ret>>

vars == <<parseVars, blockVars>>

(* ------------------------------ bounds --------------------------------- *)

MaxLen == 3

MaxNumLen == 4

MaxStrLen == 8

MaxArgs == 3

MaxErrLen == 2

MaxSepLen == 5

MaxParams == 2

MaxCallArgs == 2

MaxDepth == 3

(* --------------------------- characters -------------------------------- *)

\* Texts are ASCII: the runes >= 0x80 that eatSpace and lexIdent take as
\* identifier characters, and the vertical tab of eatSpace's space set, are
\* not among the characters of the model.

Quote == "\""

Backslash == "\\"

NUL == "<0>"

Lower == {"a","b","c","d","e","f","g","h","i","j","k","l","m",
          "n","o","p","q","r","s","t","u","v","w","x","y","z"}

Upper == {"A","B","C","D","E","F","G","H","I","J","K","L","M",
          "N","O","P","Q","R","S","T","U","V","W","X","Y","Z"}

Digits == {"0","1","2","3","4","5","6","7","8","9"}

HexDigits == Digits \cup {"a","b","c","d","e","f"} \cup {"A","B","C","D","E","F"}

SpaceChars == {" ", "\r", "\f", "\t"}

IdentStart == Lower \cup Upper \cup {"_"}

IdentChars == Lower \cup Upper \cup Digits \cup {"_", "."}

OpChars == {"!","$","%","&","'","*","+","-","/",":","<","=",">","?","@",
            Backslash,"^","|","~"}

OpenChars == {"(", "[", "{"}

CloseChars == {")", "]", "}"}

(* ------------------------------ errors --------------------------------- *)

MkErr(what, exp, got) == [what |-> what, exp |-> exp, got |-> got]

NoErr == MkErr("nil", "", "")

EOF == MkErr("EOF", "", "")

ErrUnexpectedEOF == MkErr("unexpected EOF", "", "")

ErrRead == MkErr("read error", "", "")

ErrSyntax == MkErr("invalid syntax", "", "")

ErrRange == MkErr("value out of range", "", "")

(* ------------------------------ tokens --------------------------------- *)

badToken == "badToken"

semiToken == "semiToken"

identToken == "identToken"

openToken == "openToken"

closeToken == "closeToken"

commaToken == "commaToken"

numberToken == "numberToken"

hexToken == "hexToken"

stringToken == "stringToken"

triquoteToken == "triquoteToken"

Token(kind, value, err) == [Kind |-> kind, Value |-> value, Err |-> err]

ZeroToken == Token(badToken, <<>>, NoErr)

(* --------------------------- the reader -------------------------------- *)

\* src.ReadRune at position p: the rune and the position after it, or the
\* source's terminal error once the text is exhausted.
ReadRune(p) ==
  IF p <= Len(input)
    THEN [r |-> input[p], err |-> NoErr, pos |-> p + 1]
    ELSE [r |-> NUL, err |-> srcErr, pos |-> p]

\* src.Peek(n) at position p: up to n characters, fewer at the end.
Peek(n, p) ==
  SubSeq(input, p, IF p + n - 1 <= Len(input) THEN p + n - 1 ELSE Len(input))

RECURSIVE accept(_, _, _)
accept(predicate, b, p) ==
  LET rd == ReadRune(p) IN
  IF rd.err # NoErr THEN [b |-> b, r |-> rd.r, err |-> rd.err, pos |-> rd.pos]
  ELSE IF rd.r \notin predicate
    THEN [b |-> b, r |-> rd.r, err |-> NoErr, pos |-> p]
  ELSE accept(predicate, Append(b, rd.r), rd.pos)

(* --------------------------- lexer steps ------------------------------- *)

\* What one run of a lexer state function does: the tokens it sends, in
\* order, the state it returns and the reader position it leaves.
Step(toks, next, p) == [toks |-> toks, next |-> next, pos |-> p]

\* lexsend's token: a hard error turns the token into a malformed one.
SentToken(err, good) ==
  IF err # NoErr /\ err # EOF THEN Token(badToken, good.Value, err) ELSE good

\* lexsend going on after any token.
SentNextAlways(err) == "eatSpace"

\* lexsend's returned state.
SentNext(err) == IF err # NoErr THEN "nil" ELSE "eatSpace"

lexsend(err, good, p) == Step(<<SentToken(err, good)>>, SentNext(err), p)

RECURSIVE SkipSpace(_)
SkipSpace(p) ==
  LET rd == ReadRune(p) IN
  IF rd.err = NoErr /\ rd.r \in SpaceChars THEN SkipSpace(rd.pos) ELSE p

eatSpaceStep ==
  LET p0 == SkipSpace(pos)
      rd == ReadRune(p0)
      r  == rd.r
  IN  IF rd.err # NoErr
        THEN IF rd.err # EOF
               THEN Step(<<Token(badToken, <<r>>, rd.err)>>, "nil", rd.pos)
               ELSE Step(<<>>, "nil", rd.pos)
      ELSE IF r = ";" \/ r = "\n"
        THEN Step(<<Token(semiToken, <<r>>, NoErr)>>, "eatSpace", rd.pos)
      ELSE IF r \in IdentStart THEN Step(<<>>, "lexIdent", p0)
      ELSE IF r \in OpChars THEN Step(<<>>, "lexOp", p0)
      ELSE IF r \in OpenChars
        THEN Step(<<Token(openToken, <<r>>, NoErr)>>, "eatSpace", rd.pos)
      ELSE IF r \in CloseChars
        THEN Step(<<Token(closeToken, <<r>>, NoErr)>>, "eatSpace", rd.pos)
      ELSE IF r = ","
        THEN Step(<<Token(commaToken, <<",">>, NoErr)>>, "eatSpace", rd.pos)
      ELSE IF r \in Digits THEN Step(<<>>, "lexNumber", p0)
      ELSE IF r = "."
        THEN LET peek == Peek(2, p0) IN
             IF Len(peek) > 1 /\ peek[2] \in Digits
               THEN Step(<<>>, "lexNumber", p0)
               ELSE Step(<<>>, "lexIdent", p0)
      ELSE IF r = Quote THEN Step(<<>>, "lexString", p0)
      ELSE Step(<<>>, "panic", rd.pos)

lexIdentStep ==
  LET a == accept(IdentChars, <<>>, pos)
  IN  lexsend(a.err, Token(identToken, a.b, NoErr), a.pos)

lexOpStep ==
  LET a == accept(OpChars, <<>>, pos)
  IN  lexsend(a.err, Token(identToken, a.b, NoErr), a.pos)

\* The exponent part of lexNumber (r is the rune that ended the digits).
lexExponent(b, r, err, p) ==
  IF r = "e" \/ r = "E"
    THEN LET rd == ReadRune(p) IN
         IF rd.err # NoErr
           THEN lexsend(rd.err, Token(numberToken, b, NoErr), rd.pos)
         ELSE IF rd.r = "-" \/ rd.r = "+"
           THEN LET rs == ReadRune(rd.pos)
                    a  == accept(Digits, b \o <<"e", rs.r>>, rs.pos)
                IN  lexsend(a.err, Token(numberToken, a.b, NoErr), a.pos)
         ELSE LET a == accept(Digits, Append(b, "e"), rd.pos)
              IN  lexsend(a.err, Token(numberToken, a.b, NoErr), a.pos)
    ELSE lexsend(err, Token(numberToken, b, NoErr), p)

\* The fraction part of lexNumber, then the exponent part.
lexFraction(b, r, p) ==
  IF r = "."
    THEN LET rd == ReadRune(p) IN
         IF rd.err # NoErr
           THEN lexsend(rd.err, Token(numberToken, Append(b, "."), NoErr), rd.pos)
         ELSE LET a == accept(Digits, Append(b, "."), rd.pos) IN
              IF a.err # NoErr
                THEN lexsend(a.err, Token(numberToken, a.b, NoErr), a.pos)
                ELSE lexExponent(a.b, a.r, NoErr, a.pos)
    ELSE lexExponent(b, r, NoErr, p)

\* The hexadecimal part of lexNumber: its lexsend is not returned, so the
\* function goes on to the fraction and exponent tests with r unchanged
\* and ends in the final lexsend of the same token.
lexHex(b, r, p) ==
  LET a     == accept(HexDigits, Append(b, "x"), p)
      first == lexsend(a.err, Token(numberToken, a.b, NoErr), a.pos)
      rest  == lexsend(a.err, Token(numberToken, a.b, NoErr), a.pos)
  IN  Step(first.toks \o rest.toks, rest.next, rest.pos)

lexNumberStep ==
  LET a == accept(Digits, <<>>, pos) IN
  IF a.err # NoErr
    THEN lexsend(a.err, Token(numberToken, a.b, NoErr), a.pos)
  ELSE IF a.r = "x" \/ a.r = "X" THEN lexHex(a.b, a.r, a.pos)
  ELSE lexFraction(a.b, a.r, a.pos)

\* The scanning loop of lexTriquote, b holding the text read so far.
RECURSIVE triquoteLoop(_, _)
triquoteLoop(b, p) ==
  LET rd == ReadRune(p) IN
  IF rd.err # NoErr
    THEN Step(<<Token(badToken, b,
                      IF rd.err = EOF THEN ErrUnexpectedEOF ELSE rd.err)>>,
              "nil", rd.pos)
  ELSE IF rd.r = Quote /\ Peek(2, rd.pos) = <<Quote, Quote>>
    THEN lexsend(NoErr, Token(triquoteToken, b \o <<Quote, Quote, Quote>>, NoErr),
                 rd.pos)
  ELSE triquoteLoop(Append(b, rd.r), rd.pos)

lexTriquoteStep == triquoteLoop(SubSeq(input, pos, pos + 2), pos + 3)

\* The scanning loop of lexMonoquote, b holding the text read so far.
RECURSIVE monoquoteLoop(_, _)
monoquoteLoop(b, p) ==
  LET rd == ReadRune(p) IN
  IF rd.err # NoErr
    THEN Step(<<Token(badToken, b,
                      IF rd.err = EOF THEN ErrUnexpectedEOF ELSE rd.err)>>,
              "nil", rd.pos)
  ELSE IF rd.r = Backslash THEN monoquoteLoop(Append(b, rd.r), rd.pos)
  ELSE IF rd.r = Quote
    THEN lexsend(NoErr, Token(stringToken, Append(b, rd.r), NoErr), rd.pos)
  ELSE monoquoteLoop(Append(b, rd.r), rd.pos)

lexMonoquoteStep == monoquoteLoop(SubSeq(input, pos, pos), pos + 1)

IsTriquote == Peek(3, pos) = <<Quote, Quote, Quote>>

(* ------------------------ literal decoding ----------------------------- *)

DigitVal(c) ==
  CASE c = "0" -> 0 [] c = "1" -> 1 [] c = "2" -> 2 [] c = "3" -> 3
    [] c = "4" -> 4 [] c = "5" -> 5 [] c = "6" -> 6 [] c = "7" -> 7
    [] c = "8" -> 8 [] c = "9" -> 9
    [] c \in {"a", "A"} -> 10 [] c \in {"b", "B"} -> 11
    [] c \in {"c", "C"} -> 12 [] c \in {"d", "D"} -> 13
    [] c \in {"e", "E"} -> 14 [] c \in {"f", "F"} -> 15

\* The value of a digit string in a base.
RECURSIVE BaseVal(_, _)
BaseVal(s, base) ==
  IF s = <<>> THEN 0
  ELSE BaseVal(SubSeq(s, 1, Len(s) - 1), base) * base + DigitVal(s[Len(s)])

\* The longest prefix of s made of characters of set.
RECURSIVE Run(_, _)
Run(s, set) ==
  IF s # <<>> /\ s[1] \in set THEN <<s[1]>> \o Run(Tail(s), set) ELSE <<>>

Drop(s, n) == SubSeq(s, n + 1, Len(s))

\* A decoded number: mant * 10^exp, or an infinity (inf = 1 or -1).
NumVal(mant, exp) == [inf |-> 0, mant |-> mant, exp |-> exp]

Inf(sign) == [inf |-> sign, mant |-> 0, exp |-> 0]

Decoded(val, err) == [val |-> val, err |-> err]

\* strconv.ParseFloat(s, 64) on the text of a number token (digits, '.',
\* 'x', 'e', sign): an integer part, an optional fraction, an optional
\* exponent with at least one digit, nothing after; at least one mantissa
\* digit.  The value is kept as an exact decimal; a magnitude of 10^309 or
\* more is out of range and decodes to +Inf.
ParseFloat(s) ==
  LET ip    == Run(s, Digits)
      r1    == Drop(s, Len(ip))
      dot   == r1 # <<>> /\ r1[1] = "."
      fp    == IF dot THEN Run(Tail(r1), Digits) ELSE <<>>
      r2    == IF dot THEN Drop(r1, 1 + Len(fp)) ELSE r1
      hasE  == r2 # <<>> /\ r2[1] \in {"e", "E"}
      r3    == IF hasE THEN Tail(r2) ELSE r2
      sgn   == hasE /\ r3 # <<>> /\ r3[1] \in {"+", "-"}
      r4    == IF sgn THEN Tail(r3) ELSE r3
      ep    == IF hasE THEN Run(r4, Digits) ELSE <<>>
      r5    == Drop(r4, Len(ep))
      mant  == BaseVal(ip \o fp, 10)
      e     == IF sgn /\ r3[1] = "-" THEN 0 - BaseVal(ep, 10) ELSE BaseVal(ep, 10)
      exp   == e - Len(fp)
  IN  IF Len(ip) + Len(fp) = 0 \/ (hasE /\ ep = <<>>) \/ r5 # <<>>
        THEN Decoded(NumVal(0, 0), ErrSyntax)
      ELSE IF mant # 0 /\ Len(ip) + e > 309
        THEN Decoded(Inf(1), ErrRange)
      ELSE Decoded(NumVal(mant, exp), NoErr)

\* strconv.ParseInt(s, 0, 64) on digits, hex digits and 'x': the base comes
\* from the prefix (0x: 16, a leading 0: 8, else 10); every digit must be
\* one of the base and there must be one; 2^63 or more is out of range.
ParseInt(s) ==
  LET neg    == s # <<>> /\ s[1] = "-"
      u      == IF s # <<>> /\ s[1] \in {"+", "-"} THEN Tail(s) ELSE s
      hex    == Len(u) >= 2 /\ u[1] = "0" /\ u[2] \in {"x", "X"}
      oct    == ~hex /\ Len(u) >= 2 /\ u[1] = "0"
      base   == IF hex THEN 16 ELSE IF oct THEN 8 ELSE 10
      ds     == IF hex THEN Drop(u, 2) ELSE IF oct THEN Tail(u) ELSE u
      okDig  == \A i \in 1..Len(ds) :
                   ds[i] \in HexDigits /\ DigitVal(ds[i]) < base
      v      == BaseVal(ds, base)
  IN  IF ds = <<>> \/ ~okDig THEN Decoded(0, ErrSyntax)
      ELSE IF Len(ds) > 16 \/ v >= 2^30 * 2^30 * 8
        THEN Decoded(IF neg THEN 0 - 1 ELSE 1, ErrRange)
      ELSE Decoded(IF neg THEN 0 - v ELSE v, NoErr)

\* The character an escape letter stands for in a double-quoted string.
EscapeOf(c) ==
  CASE c = "a" -> "<BEL>" [] c = "b" -> "<BS>" [] c = "f" -> "\f"
    [] c = "n" -> "\n" [] c = "r" -> "\r" [] c = "t" -> "\t"
    [] c = "v" -> "<VT>" [] c = Backslash -> Backslash [] c = Quote -> Quote
    [] OTHER -> NUL

\* The escape decoding of strconv.Unquote on the text between the quotes
\* (letters, quotes, backslashes; no numeric escapes).
RECURSIVE UnquoteBody(_)
UnquoteBody(s) ==
  IF s = <<>> THEN Decoded(<<>>, NoErr)
  ELSE IF s[1] = Quote \/ s[1] = "\n" THEN Decoded(<<>>, ErrSyntax)
  ELSE IF s[1] = Backslash
    THEN IF Len(s) < 2 \/ EscapeOf(s[2]) = NUL THEN Decoded(<<>>, ErrSyntax)
         ELSE LET rest == UnquoteBody(Drop(s, 2)) IN
              IF rest.err # NoErr THEN rest
              ELSE Decoded(<<EscapeOf(s[2])>> \o rest.val, NoErr)
  ELSE LET rest == UnquoteBody(Tail(s)) IN
       IF rest.err # NoErr THEN rest
       ELSE Decoded(<<s[1]>> \o rest.val, NoErr)

\* strconv.Unquote on a double-quoted token.
Unquote(s) ==
  IF Len(s) < 2 \/ s[1] # Quote \/ s[Len(s)] # Quote
    THEN Decoded(<<>>, ErrSyntax)
    ELSE UnquoteBody(SubSeq(s, 2, Len(s) - 1))

(* --------------------------- message tree ------------------------------ *)

NoSym == "NoSym"

SemiSym == "SemiSym"

IdentSym == "IdentSym"

NumSym == "NumSym"

StringSym == "StringSym"

\* The top-level value of parseRecurse's open parameter (rune -1).
NoOpen == "<-1>"

Symbol(kind, text, num, str) ==
  [Kind |-> kind, Text |-> text, Num |-> num, String |-> str]

ZeroSymbol == Symbol(NoSym, <<>>, NumVal(0, 0), <<>>)

\* A Message: its symbol, its arguments (node ids, 0 for a nil chain) and
\* its links (0 for nil).  The memoized literal object is not modelled: it
\* holds the value the symbol holds.
NewMessage(prev) == [Symbol |-> ZeroSymbol, Args |-> <<>>, Prev |-> prev, Next |-> 0]

\* IsStart without the test for a separator before the message.
IsStartOfChain(h, m) == h[m].Prev = 0

IsStart(h, m) == h[m].Prev = 0 \/ h[h[m].Prev].Symbol.Kind = SemiSym

(* ------------------------------ parser --------------------------------- *)

\* One activation of parseRecurse: its open parameter, its chain msg, its
\* cursor m and its result tok.
Frame(open, msg, m, tok) == [open |-> open, msg |-> msg, m |-> m, tok |-> tok]

Running == [status |-> "running", tok |-> ZeroToken, msg |-> 0, err |-> NoErr]

Returned(tok, msg, err) == [status |-> "returned", tok |-> tok, msg |-> msg, err |-> err]

Panicked == [status |-> "panic", tok |-> ZeroToken, msg |-> 0, err |-> NoErr]

PState(st, h, res) == [stack |-> st, heap |-> h, result |-> res]

Top(st) == st[Len(st)]

Pop(st) == SubSeq(st, 1, Len(st) - 1)

SetTop(st, f) == [st EXCEPT ![Len(st)] = f]

\* The call vm.parseRecurse(open, src, tokens) up to its first receive: a
\* fresh chain node and a new activation.
Call(st, h, open) ==
  LET id == Len(h) + 1
  IN  PState(Append(st, Frame(open, id, id, ZeroToken)),
             Append(h, NewMessage(0)), Running)

\* The end of the token loop's body: a fresh node is linked after m and
\* becomes the cursor.
Advance(st, h) ==
  LET f  == Top(st)
      id == Len(h) + 1
  IN  PState(SetTop(st, [f EXCEPT !.m = id]),
             Append([h EXCEPT ![f.m].Next = id], NewMessage(f.m)), Running)

ErrEmptyArg == MkErr("empty argument", "", "")

\* The error of a closing bracket tok under the expected opener open.
CloseErr(open, value) ==
  CASE open = "(" -> IF value # <<")">> THEN MkErr("expected, got", ")", value[1]) ELSE NoErr
    [] open = "[" -> IF value # <<"]">> THEN MkErr("expected, got", "]", value[1]) ELSE NoErr
    [] open = "{" -> IF value # <<"}">> THEN MkErr("expected, got", "}", value[1]) ELSE NoErr
    [] OTHER -> MkErr("unexpected", "", value[1])

ErrComma == MkErr("bro you can't just comma like that", "", "")

\* parseRecurse without its deferred function: the chain is returned as
\* the loop left it.
DeferredNothing(h, f) == [ok |-> TRUE, heap |-> h, msg |-> f.msg]

\* The deferred function of parseRecurse in the activation f: a chain with
\* no symbol becomes nil, otherwise the node before the cursor loses its
\* successor.  ok is false when m.Prev is nil: the store through it panics.
Deferred(h, f) ==
  IF h[f.msg].Symbol.Kind = NoSym THEN [ok |-> TRUE, heap |-> h, msg |-> 0]
  ELSE IF h[f.m].Prev = 0 THEN [ok |-> FALSE, heap |-> h, msg |-> f.msg]
  ELSE [ok |-> TRUE, heap |-> [h EXCEPT ![h[f.m].Prev].Next = 0], msg |-> f.msg]

\* PatchArgs with the nil test of the one-argument case left out.
PatchArgsUnguarded(args, err) ==
  IF Len(args) = 1 THEN [args |-> <<>>, err |-> err]
  ELSE IF Len(args) > 1
    THEN [args |-> args, err |-> IF args[Len(args)] = 0 THEN ErrEmptyArg ELSE err]
  ELSE [args |-> args, err |-> err]

\* The patching of m.Args after the argument loop and the error it leaves.
PatchArgs(args, err) ==
  IF Len(args) = 1
    THEN [args |-> IF args[1] = 0 THEN <<>> ELSE args, err |-> err]
  ELSE IF Len(args) > 1
    THEN [args |-> args, err |-> IF args[Len(args)] = 0 THEN ErrEmptyArg ELSE err]
  ELSE [args |-> args, err |-> err]

\* The top activation returns (tok, its chain, err): its deferred function
\* runs, and the caller, if any, resumes in the argument loop of its
\* openToken case with (atok, amsg, err): on a comma it stores the argument
\* and calls again, otherwise it patches and stores the arguments and goes
\* on to its next token; on an error it returns in turn.
RECURSIVE Return(_, _, _, _)
Return(st, h, tok, err) ==
  LET f == Top(st)
      d == Deferred(h, f)
  IN  IF ~d.ok THEN PState(st, h, Panicked)
      ELSE IF Len(st) = 1 THEN PState(<<>>, d.heap, Returned(tok, d.msg, err))
      ELSE
        LET st1  == Pop(st)
            c    == Top(st1)
            h1   == d.heap
            amsg == d.msg
        IN  IF tok.Kind = commaToken
              THEN LET err1 == IF amsg = 0 THEN ErrEmptyArg ELSE err IN
                   IF err1 # NoErr
                     THEN Return(SetTop(st1, [c EXCEPT !.tok = tok]), h1, tok, err1)
                     ELSE Call(st1,
                               [h1 EXCEPT ![c.m].Args = Append(@, amsg)],
                               c.tok.Value[1])
              ELSE LET pa == PatchArgs(h1[c.m].Args, err)
                       h2 == [h1 EXCEPT ![c.m].Args = pa.args]
                   IN  IF pa.err # NoErr
                         THEN Return(SetTop(st1, [c EXCEPT !.tok = tok]), h2, tok, pa.err)
                         ELSE Advance(st1, [h2 EXCEPT ![c.m].Args = Append(@, amsg)])

\* The receive of the token loop: tok is the activation's result variable.
Receive(st, tok) == SetTop(st, [Top(st) EXCEPT !.tok = tok])

SetSymbol(h, m, sym) == [h EXCEPT ![m].Symbol = sym]

onBad(st, h, tok) == Return(st, h, tok, tok.Err)

onSemi(st, h, tok) ==
  LET f == Top(st) IN
  IF IsStart(h, f.m) THEN PState(st, h, Running)
  ELSE Advance(st, SetSymbol(h, f.m, Symbol(SemiSym, tok.Value, NumVal(0, 0), <<>>)))

onIdent(st, h, tok) ==
  Advance(st, SetSymbol(h, Top(st).m, Symbol(IdentSym, tok.Value, NumVal(0, 0), <<>>)))

IdentNamed(text) == Symbol(IdentSym, text, NumVal(0, 0), <<>>)

squareBrackets == <<"s","q","u","a","r","e","B","r","a","c","k","e","t","s">>

curlyBrackets == <<"c","u","r","l","y","B","r","a","c","k","e","t","s">>

\* The openToken case up to the first recursive call: the node that will
\* hold the arguments becomes the cursor.
onOpen(st, h, tok) ==
  LET f == Top(st)
      b == tok.Value[1]
  IN  IF b = "("
        THEN IF IsStart(h, f.m)
               THEN Call(st, SetSymbol(h, f.m, IdentNamed(<<>>)), b)
               ELSE LET prev == h[f.m].Prev IN
                    Call(SetTop(st, [f EXCEPT !.m = prev]),
                         [h EXCEPT ![prev].Next = 0], b)
      ELSE IF b = "["
        THEN Call(st, SetSymbol(h, f.m, IdentNamed(squareBrackets)), b)
      ELSE Call(st, SetSymbol(h, f.m, IdentNamed(curlyBrackets)), b)

onClose(st, h, tok) == Return(st, h, tok, CloseErr(Top(st).open, tok.Value))

onComma(st, h, tok) ==
  Return(st, h, tok, IF Top(st).open = NoOpen THEN ErrComma ELSE NoErr)

\* The numberToken case (strconv.ParseFloat) and the hexToken case
\* (strconv.ParseInt): a range error is dropped and the value kept.
onNumber(st, h, tok) ==
  LET d == IF tok.Kind = hexToken
             THEN LET x == ParseInt(tok.Value) IN
                  IF x.err = ErrRange
                    THEN Decoded(Inf(IF tok.Value[1] = "-" THEN 0 - 1 ELSE 1), x.err)
                    ELSE Decoded(NumVal(x.val, 0), x.err)
             ELSE ParseFloat(tok.Value)
  IN  IF d.err # NoErr /\ d.err # ErrRange THEN Return(st, h, tok, d.err)
      ELSE Advance(st, SetSymbol(h, Top(st).m, Symbol(NumSym, <<>>, d.val, <<>>)))

onString(st, h, tok) ==
  LET d == Unquote(tok.Value) IN
  IF d.err # NoErr THEN Return(st, h, tok, d.err)
  ELSE Advance(st, SetSymbol(h, Top(st).m, Symbol(StringSym, <<>>, NumVal(0, 0), d.val)))

onTriquote(st, h, tok) ==
  Advance(st, SetSymbol(h, Top(st).m,
                        Symbol(StringSym, <<>>, NumVal(0, 0),
                               SubSeq(tok.Value, 4, Len(tok.Value) - 3))))

\* The token loop ends on the closed channel: the activation returns its
\* last token and no error.
onClosed(st, h) == Return(st, h, Top(st).tok, NoErr)

(* ------------------------------ inputs --------------------------------- *)

SeqsUpTo(S, n) == UNION {[1..k -> S] : k \in 0..n}

\* Every text of at most MaxLen characters over the bracket, comma,
\* separator, space, identifier and digit characters.
GenChars == {"f", "(", ")", "[", "]", "{", "}", ",", "1", ";", " "}

GenInputs == SeqsUpTo(GenChars, MaxLen)

\* Every text of at most MaxNumLen characters that starts with a digit and
\* goes on with the characters of number literals.
NumChars == {"0", "1", "x", "F", ".", "e", "+", "-"}

NumInputs ==
  {<<d>> \o t : d \in {"0", "1"}, t \in SeqsUpTo(NumChars, MaxNumLen - 1)}

\* Every text of at most MaxStrLen characters that starts with a quote and
\* goes on with quotes, backslashes and a letter.
StrChars == {Quote, Backslash, "a"}

StrInputs == {<<Quote>> \o t : t \in SeqsUpTo(StrChars, MaxStrLen - 1)}

\* Calls of f with at most MaxArgs arguments, each one of ArgExprs (the
\* empty text among them), closed by a bracket or not at all, at the start
\* of the chain or after another message.
ArgExprs == {<<>>, <<"1">>, <<"g">>, <<"g", " ", "2">>}

RECURSIVE Join(_)
Join(args) ==
  IF args = <<>> THEN <<>>
  ELSE IF Len(args) = 1 THEN args[1]
  ELSE args[1] \o <<",">> \o Join(Tail(args))

CallText(prefix, args, close) == prefix \o <<"f", "(">> \o Join(args) \o close

CallPrefixes == {<<>>, <<"h", " ">>}

CallClosers == {<<")">>, <<"]">>, <<>>}

CallInputs ==
  {CallText(p, a, c) : p \in CallPrefixes, a \in SeqsUpTo(ArgExprs, MaxArgs),
                       c \in CallClosers}

\* Every text of at most MaxSepLen characters over the two statement
\* separators and an identifier.
SepChars == {";", "\n", "f"}

SepInputs == SeqsUpTo(SepChars, MaxSepLen)

Inputs == GenInputs \cup NumInputs \cup StrInputs \cup CallInputs \cup SepInputs

(* ------------------------------ blocks --------------------------------- *)

\* Go's nil, and the interpreter's nil object vm.Nil.
nil == [tag |-> "nil"]

vmNil == [tag |-> "vm.Nil"]

Object(id) == [tag |-> "Object", id |-> id]

\* A message by its name and its argument messages.
Message(text, args) == [tag |-> "Message", Text |-> text, Args |-> args]

\* The non-local-control signal and its payload.
Stop(r) == [tag |-> "Stop", Result |-> r]

Block(message, self, argNames, activatable) ==
  [tag |-> "Block", Message |-> message, Self |-> self, ArgNames |-> argNames,
   Activatable |-> activatable]

\* msg.ArgAt(i), i counted from 0: the i-th argument message or nil.
ArgAt(msg, i) == IF 0 <= i /\ i < Len(msg.Args) THEN msg.Args[i + 1] ELSE nil

\* arg.Name(): the name of a message.
Name(m) == m.Text

\* SetSlot on an object's slots.
SetSlot(slots, name, value) == (name :> value) @@ slots

\* The call record of an activation.
NewCall(locals, b, msg, target) ==
  [tag |-> "Call", Sender |-> locals, Activated |-> b, Msg |-> msg, Target |-> target]

\* The value of evaluating message m in locals, as a term: not m itself.
Eval(m, locals) == [tag |-> "Value", Of |-> m, In |-> locals]

\* The loop of reallyActivate over b.ArgNames from index i on.
RECURSIVE BindArgs(_, _, _, _)
BindArgs(slots, argNames, msg, i) ==
  IF i >= Len(argNames) THEN slots
  ELSE LET x == ArgAt(msg, i) IN
       BindArgs(SetSlot(slots, argNames[i + 1], IF x # nil THEN x ELSE vmNil),
                argNames, msg, i + 1)

\* An evaluation in progress: DoMessage's msg.Eval or a block's
\* b.Message.Eval, with the locals object the body runs in.
EvalFrame(kind, b, target, locals, msg, blkLocals) ==
  [kind |-> kind, b |-> b, target |-> target, locals |-> locals, msg |-> msg,
   blkLocals |-> blkLocals]

\* reallyActivate up to the evaluation of the body: the locals of the
\* activation with the parameters, self and call.
reallyActivate(b, target, locals, msg) ==
  LET bound == BindArgs(<<>>, b.ArgNames, msg, 0)
      scope == IF b.Self = nil THEN target ELSE b.Self
      call  == NewCall(locals, b, msg, target)
  IN  EvalFrame("Block", b, target, locals, msg,
                SetSlot(SetSlot(bound, "self", scope), "call", call))

\* reallyActivate handing the signal on instead of its payload.
KeepStop(r) == r

\* reallyActivate after the evaluation of the body.
ActivateResult(r) == IF r.tag = "Stop" THEN r.Result ELSE r

\* Activate running every block.
ActivateAlways(b, target, locals, msg) ==
  [ran |-> TRUE, value |-> nil, frame |-> reallyActivate(b, target, locals, msg)]

\* Block.Activate: the block itself unless it is activatable.
Activate(b, target, locals, msg) ==
  IF ~b.Activatable THEN [ran |-> FALSE, value |-> b, frame |-> nil]
  ELSE [ran |-> TRUE, value |-> nil, frame |-> reallyActivate(b, target, locals, msg)]

\* BlockCall: the block is the target.
BlockCall(target, locals, msg) == reallyActivate(target, target, locals, msg)

ObjectBlock(target, locals, msg) ==
  Block(ArgAt(msg, Len(msg.Args) - 1), locals,
        [i \in 1..(Len(msg.Args) - 1) |-> Name(msg.Args[i])], FALSE)

\* ObjectMethod leaving the captured locals in place.
ObjectMethodKeepsSelf(target, locals, msg) ==
  [ObjectBlock(target, locals, msg) EXCEPT !.Activatable = TRUE]

ObjectMethod(target, locals, msg) ==
  [ObjectBlock(target, locals, msg) EXCEPT !.Activatable = TRUE, !.Self = nil]

\* DoMessage after the evaluation of the chain.
DoMessage(r) == IF r.tag = "Stop" THEN r.Result ELSE r

\* The evaluation DoMessage starts.
DoMessageFrame(msg, locals) == EvalFrame("DoMessage", nil, nil, locals, msg, <<>>)

(* --------------------------- block inputs ------------------------------ *)

Objects == {Object("Lobby"), Object("A")}

AllNames == <<"a", "b", "c", "d">>

Body == Message("body", <<>>)

\* The messages block(body), block(a, body), ... that create a block.
CreationMessages ==
  {Message("block", [i \in 1..k |-> Message(AllNames[i], <<>>)] \o <<Body>>) :
     k \in 0..MaxParams}

AllArgs == <<"x", "y", "z", "w">>

\* The call-site messages f, f(x), f(x, y), ...
CallMessages ==
  {Message("f", [i \in 1..k |-> Message(AllArgs[i], <<>>)]) : k \in 0..MaxCallArgs}

\* What the evaluation of a body can yield besides the value just handed
\* back to it: an object, a signal, a signal carrying a signal.
Results ==
  {Object("A"), Stop(Object("A")), Stop(Stop(Object("A")))}

\* The operation performed last: entered (a body is being evaluated) or
\* returned with value, raw being what the body's evaluation yielded.
Entered(op) == [op |-> op, returned |-> FALSE, raw |-> nil, value |-> nil]

Handed(op, raw, value) == [op |-> op, returned |-> TRUE, raw |-> raw, value |-> value]

NoReturn == Entered("none")

NotMade == [by |-> "none", locals |-> nil]

(* --------------------------- specification ----------------------------- *)

\* Parse has started lex and called parseRecurse(-1), which waits for its
\* first token.  Short texts may also end in a hard read error.
Init ==
  /\ input \in Inputs
  /\ srcErr \in (IF Len(input) <= MaxErrLen THEN {EOF, ErrRead} ELSE {EOF})
  /\ pos = 1
  /\ lexState = "eatSpace"
  /\ sendq = <<>>
  /\ closed = FALSE
  /\ stack = Call(<<>>, <<>>, NoOpen).stack
  /\ heap = Call(<<>>, <<>>, NoOpen).heap
  /\ result = Running
  /\ produced = <<>>
  /\ received = <<>>
  /\ blk = nil
  /\ made = NotMade
  /\ frames = <<>>
  /\ ret = NoReturn

\* The token, if any, whose send statement the lexer reaches next.
NextSend(toks) == IF toks = <<>> THEN <<>> ELSE <<Head(toks)>>

\* A buffered channel: sends never block.
SendNeverBlocked == FALSE

\* tokens is unbuffered: the lexer stays in its send statement until the
\* parser takes the token.
SendBlocked == sendq # <<>>

\* The lexer runs the state function of lexState up to its first send;
\* further sends of the same function start as the earlier ones complete.
LexRun(state, step) ==
  /\ lexState = state
  /\ ~SendBlocked
  /\ pos' = step.pos
  /\ sendq' = sendq \o step.toks
  /\ lexState' = step.next
  /\ produced' = produced \o NextSend(step.toks)
  /\ UNCHANGED <<input, srcErr, closed, stack, heap, result, received, blockVars>>

EatSpace == LexRun("eatSpace", eatSpaceStep)

LexIdent == LexRun("lexIdent", lexIdentStep)

LexOp == LexRun("lexOp", lexOpStep)

LexNumber == LexRun("lexNumber", lexNumberStep)

LexTriquote == IsTriquote /\ LexRun("lexString", lexTriquoteStep)

LexMonoquote == ~IsTriquote /\ LexRun("lexString", lexMonoquoteStep)

\* lex has left its loop: close(tokens).
LexClose ==
  /\ lexState = "nil"
  /\ ~SendBlocked
  /\ lexState' = "closed"
  /\ closed' = TRUE
  /\ UNCHANGED <<input, srcErr, pos, sendq, stack, heap, result, produced, received,
                 blockVars>>

\* The parser's next state after a step of its token loop.
ParserBecomes(ps) ==
  /\ stack' = ps.stack
  /\ heap' = ps.heap
  /\ result' = ps.result

\* The handoff of the token the lexer is sending, of one of kinds, to the
\* waiting parser.
Handoff(kinds) ==
  /\ result.status = "running"
  /\ sendq # <<>>
  /\ Head(sendq).Kind \in kinds
  /\ sendq' = Tail(sendq)
  /\ received' = Append(received, Head(sendq))
  /\ produced' = produced \o NextSend(Tail(sendq))
  /\ UNCHANGED <<input, srcErr, pos, lexState, closed, blockVars>>

ParseBad ==
  /\ Handoff({badToken})
  /\ ParserBecomes(onBad(Receive(stack, Head(sendq)), heap, Head(sendq)))

ParseSemi ==
  /\ Handoff({semiToken})
  /\ ParserBecomes(onSemi(Receive(stack, Head(sendq)), heap, Head(sendq)))

ParseIdent ==
  /\ Handoff({identToken})
  /\ ParserBecomes(onIdent(Receive(stack, Head(sendq)), heap, Head(sendq)))

ParseOpen ==
  /\ Handoff({openToken})
  /\ ParserBecomes(onOpen(Receive(stack, Head(sendq)), heap, Head(sendq)))

ParseClose ==
  /\ Handoff({closeToken})
  /\ ParserBecomes(onClose(Receive(stack, Head(sendq)), heap, Head(sendq)))

ParseComma ==
  /\ Handoff({commaToken})
  /\ ParserBecomes(onComma(Receive(stack, Head(sendq)), heap, Head(sendq)))

ParseNumber ==
  /\ Handoff({numberToken, hexToken})
  /\ ParserBecomes(onNumber(Receive(stack, Head(sendq)), heap, Head(sendq)))

ParseString ==
  /\ Handoff({stringToken})
  /\ ParserBecomes(onString(Receive(stack, Head(sendq)), heap, Head(sendq)))

ParseTriquote ==
  /\ Handoff({triquoteToken})
  /\ ParserBecomes(onTriquote(Receive(stack, Head(sendq)), heap, Head(sendq)))

\* The parser's receive finds the channel closed.
ParseClosed ==
  /\ result.status = "running"
  /\ closed
  /\ ParserBecomes(onClosed(stack, heap))
  /\ UNCHANGED <<input, srcErr, pos, lexState, sendq, closed, produced, received,
                 blockVars>>

Next ==
  \/ EatSpace
  \/ LexIdent
  \/ LexOp
  \/ LexNumber
  \/ LexTriquote
  \/ LexMonoquote
  \/ LexClose
  \/ ParseBad
  \/ ParseSemi
  \/ ParseIdent
  \/ ParseOpen
  \/ ParseClose
  \/ ParseComma
  \/ ParseNumber
  \/ ParseString
  \/ ParseTriquote
  \/ ParseClosed

Spec == Init /\ [][Next]_vars

(* ---------------------- specification of blocks ------------------------ *)

\* Parse has returned the empty chain; no block exists and nothing is
\* being evaluated.
InitBlock ==
  /\ input = <<>>
  /\ srcErr = EOF
  /\ pos = 1
  /\ lexState = "closed"
  /\ sendq = <<>>
  /\ closed = TRUE
  /\ stack = <<>>
  /\ heap = <<>>
  /\ result = Returned(ZeroToken, 0, NoErr)
  /\ produced = <<>>
  /\ received = <<>>
  /\ blk = nil
  /\ made = NotMade
  /\ frames = <<>>
  /\ ret = NoReturn

\* DoMessage starts the evaluation of a chain in locals.
DoMessageCall ==
  /\ frames = <<>>
  /\ \E locals \in Objects : frames' = <<DoMessageFrame(Body, locals)>>
  /\ ret' = Entered("DoMessage")
  /\ UNCHANGED <<parseVars, blk, made>>

\* The locals of the evaluation on top, which it passes as locals to what
\* it calls: DoMessage's locals, or the fresh locals object of the block
\* activation at that depth.
CallerLocals ==
  IF frames[Len(frames)].kind = "DoMessage" THEN frames[Len(frames)].locals
  ELSE [tag |-> "Object", blkLocals |-> Len(frames)]

\* The top-level chain sends block(...) to target: ObjectBlock.  made
\* records how and in which locals blk was created.
BlockCreate ==
  /\ Len(frames) = 1
  /\ \E target \in Objects, msg \in CreationMessages :
       blk' = ObjectBlock(target, CallerLocals, msg)
  /\ made' = [by |-> "block", locals |-> CallerLocals]
  /\ UNCHANGED <<parseVars, frames, ret>>

\* The top-level chain sends method(...): ObjectMethod.
MethodCreate ==
  /\ Len(frames) = 1
  /\ \E target \in Objects, msg \in CreationMessages :
       blk' = ObjectMethod(target, CallerLocals, msg)
  /\ made' = [by |-> "method", locals |-> CallerLocals]
  /\ UNCHANGED <<parseVars, frames, ret>>

\* The evaluation in progress finds the block in a slot and activates it
\* on target: Block.Activate.
BlockActivate ==
  /\ frames # <<>>
  /\ blk # nil
  /\ \E target \in Objects, msg \in CallMessages :
       LET a == Activate(blk, target, CallerLocals, msg) IN
       IF a.ran
         THEN /\ Len(frames) < MaxDepth
              /\ frames' = Append(frames, a.frame)
              /\ ret' = Entered("Activate")
         ELSE /\ frames' = frames
              /\ ret' = Handed("Activate", nil, a.value)
  /\ UNCHANGED <<parseVars, blk, made>>

\* The evaluation in progress sends call to the block: BlockCall.
BlockCallStep ==
  /\ frames # <<>>
  /\ blk # nil
  /\ Len(frames) < MaxDepth
  /\ \E msg \in CallMessages :
       frames' = Append(frames, BlockCall(blk, CallerLocals, msg))
  /\ ret' = Entered("BlockCall")
  /\ UNCHANGED <<parseVars, blk, made>>

\* The evaluation on top yields r, one of Results or the value handed back
\* to it last; reallyActivate, or DoMessage at the bottom, returns.
EvalReturns ==
  /\ frames # <<>>
  /\ \E r \in Results \cup (IF ret.returned THEN {ret.value} ELSE {}) :
       ret' = IF frames[Len(frames)].kind = "Block"
                THEN Handed("reallyActivate", r, ActivateResult(r))
                ELSE Handed("DoMessage", r, DoMessage(r))
  /\ frames' = SubSeq(frames, 1, Len(frames) - 1)
  /\ UNCHANGED <<parseVars, blk, made>>

NextBlock ==
  \/ DoMessageCall
  \/ BlockCreate
  \/ MethodCreate
  \/ BlockActivate
  \/ BlockCallStep
  \/ EvalReturns

SpecBlock == InitBlock /\ [][NextBlock]_vars

(* ------------------------- claims: helpers ----------------------------- *)

Finished == result.status # "running"

Succeeded == result.status = "returned" /\ result.err = NoErr

Closer(o) == CASE o = "(" -> ")" [] o = "[" -> "]" [] o = "{" -> "}"

\* The ids of the chain that starts at node id, in Next order.
RECURSIVE ChainOf(_, _)
ChainOf(h, id) == IF id = 0 THEN <<>> ELSE <<id>> \o ChainOf(h, h[id].Next)

ChainSymbols(h, id) == [i \in 1..Len(ChainOf(h, id)) |-> h[ChainOf(h, id)[i]].Symbol]

LastOf(h, id) == ChainOf(h, id)[Len(ChainOf(h, id))]

NumberSymbol(n) == Symbol(NumSym, <<>>, NumVal(n, 0), <<>>)

\* Open brackets minus close brackets among tokens.
RECURSIVE Depth(_)
Depth(toks) ==
  IF toks = <<>> THEN 0
  ELSE Depth(SubSeq(toks, 1, Len(toks) - 1))
       + (CASE toks[Len(toks)].Kind = openToken -> 1
            [] toks[Len(toks)].Kind = closeToken -> 0 - 1
            [] OTHER -> 0)

\* Token i of toks is malformed or breaks the grammar where it stands.
ViolationAt(toks, i) ==
  LET t == toks[i] IN
  \/ t.Kind = badToken
  \/ t.Kind = numberToken /\ ParseFloat(t.Value).err = ErrSyntax
  \/ t.Kind = stringToken /\ Unquote(t.Value).err # NoErr
  \/ t.Kind \in {commaToken, closeToken} /\ Depth(SubSeq(toks, 1, i - 1)) = 0
  \/ /\ i > 1
     /\ \/ /\ t.Kind = closeToken
           /\ toks[i - 1].Kind = openToken
           /\ t.Value # <<Closer(toks[i - 1].Value[1])>>
        \/ t.Kind = commaToken /\ toks[i - 1].Kind \in {openToken, commaToken}
        \/ t.Kind = closeToken /\ toks[i - 1].Kind = commaToken

ArgLists == SeqsUpTo(ArgExprs, MaxArgs)

\* The symbols of the chain an argument expression of ArgExprs stands for.
ArgSymbols(e) ==
  CASE e = <<"1">> -> <<NumberSymbol(1)>>
    [] e = <<"g">> -> <<IdentNamed(<<"g">>)>>
    [] e = <<"g", " ", "2">> -> <<IdentNamed(<<"g">>), NumberSymbol(2)>>
    [] OTHER -> <<>>

PrefixSymbols(p) == IF p = <<>> THEN <<>> ELSE <<IdentNamed(<<"h">>)>>

NoNilArgument == \A n \in 1..Len(heap) : \A i \in 1..Len(heap[n].Args) : heap[n].Args[i] # 0

(* ------------------------------ claims --------------------------------- *)

\* C1: for every opener and closer, the text made of the opener followed by
\* the closer parses without error if they match, and otherwise Parse
\* returns a syntax error naming the expected and the actual closer.
C1_BracketMatching ==
  \A o \in OpenChars, c \in CloseChars :
    (input = <<o, c>> /\ srcErr = EOF /\ Finished) =>
      /\ result.status = "returned"
      /\ result.err = IF c = Closer(o) THEN NoErr
                      ELSE MkErr("expected, got", Closer(o), c)

\* C2: Parse never aborts abnormally, and once the parser has taken a
\* malformed token or a token that breaks the grammar (top-level comma or
\* closer, mismatched closer, empty argument, undecodable literal), Parse
\* has returned a non-nil error.
C2_ErrorPropagation ==
  /\ result.status # "panic"
  /\ (\E i \in 1..Len(received) : ViolationAt(received, i)) =>
       (result.status = "returned" /\ result.err # NoErr)

\* C3: a call whose brackets hold nothing, f(), leaves f with an empty
\* argument list, and no message of the tree holds a nil argument.
C3_EmptyArgList ==
  \A p \in CallPrefixes :
    (input = CallText(p, <<>>, <<")">>) /\ Finished) =>
      /\ Succeeded
      /\ heap[LastOf(heap, result.msg)].Symbol = IdentNamed(<<"f">>)
      /\ heap[LastOf(heap, result.msg)].Args = <<>>
      /\ NoNilArgument

\* C4: a bracket group of two or more comma-separated arguments one of
\* which is empty, f(1,) or f(,), makes Parse return the empty argument
\* error, and no message holds a nil argument.
C4_EmptyArgumentIsError ==
  (Finished /\ input \in CallInputs) => \A p \in CallPrefixes, args \in ArgLists :
    (/\ Len(args) >= 2
     /\ \E i \in 1..Len(args) : args[i] = <<>>
     /\ input = CallText(p, args, <<")">>)) =>
      /\ result.status = "returned"
      /\ result.err = ErrEmptyArg
      /\ NoNilArgument

\* C5: a call f(e1,...,en), n >= 1, of non-empty argument expressions and a
\* matching closer parses without error to a message f with exactly n
\* arguments, the i-th being the chain of the i-th expression.
C5_ArgArityAndOrder ==
  (Finished /\ input \in CallInputs) => \A p \in CallPrefixes, args \in ArgLists :
    (/\ Len(args) >= 1
     /\ \A i \in 1..Len(args) : args[i] # <<>>
     /\ input = CallText(p, args, <<")">>)) =>
      /\ Succeeded
      /\ ChainSymbols(heap, result.msg) = PrefixSymbols(p) \o <<IdentNamed(<<"f">>)>>
      /\ LET f == LastOf(heap, result.msg) IN
         /\ Len(heap[f].Args) = Len(args)
         /\ \A i \in 1..Len(args) :
              ChainSymbols(heap, heap[f].Args[i]) = ArgSymbols(args[i])

\* C5 witness: f(g 2,1) has been parsed to a message with two arguments.
C5_Witness ==
  /\ input = CallText(<<>>, <<<<"g", " ", "2">>, <<"1">>>>, <<")">>)
  /\ Succeeded
  /\ Len(heap[result.msg].Args) = 2
  /\ ChainSymbols(heap, heap[result.msg].Args[1]) = <<IdentNamed(<<"g">>), NumberSymbol(2)>>
  /\ ChainSymbols(heap, heap[result.msg].Args[2]) = <<NumberSymbol(1)>>

(* ----------------------- claims: literals ------------------------------ *)

AllIn(s, set) == \A i \in 1..Len(s) : s[i] \in set

\* s is k digits, an x and at least one hexadecimal digit.
IsHexLiteral(s, k) ==
  /\ k >= 1
  /\ Len(s) >= k + 2
  /\ AllIn(SubSeq(s, 1, k), Digits)
  /\ s[k + 1] \in {"x", "X"}
  /\ AllIn(Drop(s, k + 1), HexDigits)

\* s is digits, a point, and then no digit.
IsTrailingDot(s) ==
  LET ip == Run(s, Digits) IN
  /\ ip # <<>>
  /\ Len(s) > Len(ip)
  /\ s[Len(ip) + 1] = "."
  /\ (Len(s) = Len(ip) + 1 \/ s[Len(ip) + 2] \notin Digits)

\* s is digits, an e, an optional sign and digits.
IsExponentLiteral(s) ==
  LET ip == Run(s, Digits)
      r1 == Drop(s, Len(ip))
      r2 == IF r1 # <<>> THEN Tail(r1) ELSE <<>>
      r3 == IF r2 # <<>> /\ r2[1] \in {"+", "-"} THEN Tail(r2) ELSE r2
  IN  ip # <<>> /\ r1 # <<>> /\ r1[1] \in {"e", "E"} /\ r3 # <<>> /\ AllIn(r3, Digits)

\* The index of the first quote at or after i of s that no backslash
\* protects, 0 if there is none.
RECURSIVE ClosingQuote(_, _)
ClosingQuote(s, i) ==
  IF i > Len(s) THEN 0
  ELSE IF s[i] = Backslash THEN ClosingQuote(s, i + 2)
  ELSE IF s[i] = Quote THEN i
  ELSE ClosingQuote(s, i + 1)

Quotes3 == <<Quote, Quote, Quote>>

\* The index of the first """ at or after i of s, 0 if there is none.
RECURSIVE ClosingTriquote(_, _)
ClosingTriquote(s, i) ==
  IF i + 2 > Len(s) THEN 0
  ELSE IF SubSeq(s, i, i + 2) = Quotes3 THEN i
  ELSE ClosingTriquote(s, i + 1)

StringSymbol(str) == Symbol(StringSym, <<>>, NumVal(0, 0), str)

\* C6: digits, x and hexadecimal digits are lexed as one hex-number token
\* holding the whole literal, and Parse decodes a literal 0x... to its
\* value without error.
C6_HexLiteral ==
  \A k \in 1..Len(input) :
    IsHexLiteral(input, k) =>
      /\ Len(produced) <= 1
      /\ produced # <<>> => produced[1] = Token(hexToken, input, NoErr)
      /\ (Finished /\ SubSeq(input, 1, k) = <<"0">>) =>
           /\ Succeeded
           /\ ChainSymbols(heap, result.msg)
                = <<NumberSymbol(BaseVal(Drop(input, 2), 16))>>

\* C7: digits and a point that no digit follows make the lexer emit a
\* malformed token, and Parse return an error.
C7_TrailingDot ==
  IsTrailingDot(input) =>
    /\ produced # <<>> => produced[1].Kind = badToken
    /\ Finished => (result.status = "returned" /\ result.err # NoErr)

\* C8: digits, e, an optional sign and digits are lexed as one number
\* token holding the sign and the exponent digits.
C8_Exponent ==
  IsExponentLiteral(input) =>
    /\ Len(produced) <= 1
    /\ produced # <<>> =>
         produced[1] = Token(numberToken,
                             [i \in 1..Len(input) |->
                                IF input[i] = "E" THEN "e" ELSE input[i]],
                             NoErr)

\* C9: a quoted string is one token that ends at the first quote no
\* backslash protects.
C9_EscapedQuote ==
  (input # <<>> /\ input[1] = Quote /\ Peek(3, 1) # Quotes3
     /\ ClosingQuote(input, 2) # 0 /\ produced # <<>>) =>
    produced[1] = Token(stringToken, SubSeq(input, 1, ClosingQuote(input, 2)), NoErr)

\* C10: a string opened by """ is one triple-quoted token that ends at the
\* next """, whose three quotes it consumes; the text between decodes
\* verbatim.
C10_Triquote ==
  (Peek(3, 1) = Quotes3 /\ ClosingTriquote(input, 4) # 0 /\ produced # <<>>) =>
    LET e == ClosingTriquote(input, 4) IN
    /\ produced[1] = Token(triquoteToken, SubSeq(input, 1, e + 2), NoErr)
    /\ pos >= e + 3
    /\ (Len(input) = e + 2) =>
         /\ Len(produced) = 1
         /\ Finished =>
              /\ Succeeded
              /\ ChainSymbols(heap, result.msg) = <<StringSymbol(SubSeq(input, 4, e - 1))>>

(* ----------------------- claims: the handoff --------------------------- *)

IsPrefix(s, t) == Len(s) <= Len(t) /\ SubSeq(t, 1, Len(s)) = s

\* C11: the tokens the parser has taken are a prefix, in order, of the
\* tokens the lexer has sent or is sending, and the lexer is at most one
\* token ahead: that token is the one its blocked send holds.
C11_HandoffOrder ==
  /\ IsPrefix(received, produced)
  /\ Len(produced) <= Len(received) + 1
  /\ Len(produced) = Len(received) + 1 =>
       (sendq # <<>> /\ Head(sendq) = produced[Len(produced)])

\* C11 witness: two tokens taken, a third one waiting in the lexer's send.
C11_Witness ==
  /\ Len(received) = 2
  /\ Len(produced) = 3
  /\ result.status = "running"
  /\ received[1] # received[2]

\* C12: in every run of Parse the lexer terminates by closing the token
\* stream, also when the parser has returned early: until the stream is
\* closed, a step of the lexer or a handoff is always possible, so the
\* lexer is never left blocked in a send that no one will receive.
C12_LexerTerminates == closed \/ ENABLED Next

(* -------------------- claims: the returned chains ---------------------- *)

\* C17: when the token stream ends while a bracket group is open (more
\* openers than closers were taken), a Parse that returns returns an
\* error: f(1 and f(1, are never accepted.
C17_UnclosedBracket ==
  (closed /\ sendq = <<>> /\ Depth(received) > 0 /\ result.status = "returned") =>
    result.err # NoErr

\* The chains parseRecurse has returned without an error: the chain Parse
\* returns and every non-nil argument stored in a message.
ReturnedChains ==
  ((IF Succeeded THEN {result.msg} ELSE {})
   \cup UNION {{heap[n].Args[i] : i \in 1..Len(heap[n].Args)} : n \in 1..Len(heap)})
  \ {0}

\* Every node of the chain has a symbol and each node after the first has
\* the node before it as Prev.  ChainOf follows Next up to the node that has
\* no successor, so a sentinel left on the chain shows as a node of kind
\* NoSym.
ChainShape(h, id) ==
  LET c == ChainOf(h, id) IN
  \A i \in 1..Len(c) :
    /\ h[c[i]].Symbol.Kind # NoSym
    /\ i > 1 => h[c[i]].Prev = c[i - 1]
    /\ i = Len(c) => h[c[i]].Next = 0

\* C18: every chain returned by a parseRecurse that reports no error, the
\* chain of Parse and every non-nil argument chain, holds only nodes with a
\* symbol, ends in a node without successor and has consistent Prev links;
\* a level at which no message was parsed is returned as nil.
C18_ChainShape ==
  /\ \A id \in ReturnedChains : ChainShape(heap, id)
  /\ (Succeeded /\ \A i \in 1..Len(received) : received[i].Kind = semiToken) =>
       result.msg = 0

\* C18 witness: a successful parse of at least two messages, the last of
\* which holds a non-nil argument chain.
C18_Witness ==
  /\ Succeeded
  /\ result.msg # 0
  /\ Len(ChainOf(heap, result.msg)) >= 2
  /\ \E a \in ReturnedChains : a # result.msg

\* No separator at the head of the chain and no two separators in a row.
SeparatorsAbsorbed(h, id) ==
  LET c == ChainOf(h, id) IN
  \A i \in 1..Len(c) :
    h[c[i]].Symbol.Kind = SemiSym =>
      /\ i > 1
      /\ h[c[i - 1]].Symbol.Kind # SemiSym

\* The parser takes a separator token while no message has been parsed
\* since the chain start or the previous separator.
SeparatorAtStart ==
  /\ result.status = "running"
  /\ sendq # <<>>
  /\ Head(sendq).Kind = semiToken
  /\ IsStart(heap, Top(stack).m)
  /\ received' # received

\* C19: no chain of a successful parse starts with a separator node or
\* holds two adjacent separator nodes, and a separator token taken at the
\* start of a chain or right after a separator creates no node: the tree
\* and the cursor stay as they are.
C19_SeparatorAbsorption ==
  /\ [](\A id \in ReturnedChains : SeparatorsAbsorbed(heap, id))
  /\ [][SeparatorAtStart =>
          (heap' = heap /\ Len(stack') = Len(stack) /\ Top(stack').m = Top(stack).m)]_vars

\* C19 witness: a text that starts with a newline and holds a run of both
\* separators between two identifiers has been parsed to the chain f ; f.
C19_Witness ==
  /\ Succeeded
  /\ Len(received) = MaxSepLen
  /\ received[1].Value = <<"\n">>
  /\ \E i \in 2..(Len(received) - 1) :
       /\ received[i].Value = <<";">>
       /\ received[i + 1].Value = <<"\n">>
  /\ Len(ChainOf(heap, result.msg)) = 3
  /\ [i \in 1..3 |-> ChainSymbols(heap, result.msg)[i].Kind] = <<IdentSym, SemiSym, IdentSym>>

(* ----------------------- claims: malformed tokens ---------------------- *)

\* C20: a malformed token is the last token the lexer sends: no token
\* follows it, the lexer's next step is closing the stream, and it carries
\* the read error, or unexpected EOF when a quoted or triple-quoted string
\* was open at the end of the input.
C20_MalformedTokenIsFinal ==
  \A i \in 1..Len(produced) :
    produced[i].Kind = badToken =>
      /\ i = Len(produced)
      /\ Len(sendq) <= 1
      /\ lexState \in {"nil", "closed"}
      /\ produced[i].Err = IF srcErr = EOF THEN ErrUnexpectedEOF ELSE srcErr
      /\ srcErr = EOF => (produced[i].Value # <<>> /\ produced[i].Value[1] = Quote)

\* C20 witness: after a well-formed token the lexer has sent a malformed
\* one, the parser has taken it and the stream is closed.
C20_Witness ==
  /\ closed
  /\ Len(produced) = 2
  /\ produced[1].Kind # badToken
  /\ produced[2].Kind = badToken
  /\ received = produced

(* --------------------------- claims: blocks ---------------------------- *)

BlockFrames == {frames[k] : k \in {k \in 1..Len(frames) : frames[k].kind = "Block"}}

\* C13: in the locals of every activation of an activatable block, the
\* parameter at index i is bound to the value of evaluating the call-site
\* message's i-th argument in the caller's locals, and to vm.Nil when the
\* call site supplies no i-th argument.
C13_ArgumentBinding ==
  \A f \in {g \in BlockFrames : g.b.Activatable} :
    \A i \in 1..Len(f.b.ArgNames) :
      f.blkLocals[f.b.ArgNames[i]] =
        IF i <= Len(f.msg.Args) THEN Eval(f.msg.Args[i], f.locals) ELSE vmNil

\* C14: a block made by the block constructor in locals S runs with self
\* bound to S whatever the target and locals of the call; a block made as
\* a method has no captured self and runs with self bound to the target
\* it is activated on.
C14_SelfBinding ==
  \A f \in BlockFrames :
    /\ f.b = blk
    /\ made.by = "block" => f.blkLocals["self"] = made.locals
    /\ made.by = "method" => (f.b.Self = nil /\ f.blkLocals["self"] = f.target)

\* C14 witness: a block made in S is running, called with locals other
\* than S, inside another activation of itself.
C14_Witness ==
  /\ made.by = "block"
  /\ Len(frames) = MaxDepth
  /\ frames[Len(frames)].kind = "Block"
  /\ frames[Len(frames)].locals # made.locals
  /\ frames[Len(frames)].target # made.locals
  /\ frames[Len(frames)].blkLocals["self"] = made.locals

\* C15: a block activation, and DoMessage, whose evaluation yields a
\* signal returns the signal's payload, unwrapped once (a payload that is
\* itself a signal stays one); any other result is returned unchanged.
C15_StopUnwrapping ==
  (ret.returned /\ ret.op \in {"reallyActivate", "DoMessage"}) =>
    \/ ret.raw = Stop(ret.value)
    \/ ret.raw.tag # "Stop" /\ ret.value = ret.raw

\* C15 witness: a block activation inside another evaluation has returned
\* the payload of a signal.
C15_Witness ==
  /\ ret.returned
  /\ ret.op = "reallyActivate"
  /\ ret.raw.tag = "Stop"
  /\ ret.value = Object("A")
  /\ frames # <<>>

\* A step that activates the block (Block.Activate).
ActivateStep == ret'.op = "Activate" /\ (ret' # ret \/ frames' # frames)

\* C16: activating a block that is not activatable returns the block
\* itself and changes nothing else: no evaluation starts, no locals or
\* call record are made, no slot is written; a body starts running only
\* by the activation of an activatable block or by the call operation.
C16_NotActivatable ==
  [][/\ (ActivateStep /\ ~blk.Activatable) =>
          (/\ ret' = Handed("Activate", nil, blk)
           /\ frames' = frames
           /\ blk' = blk
           /\ made' = made)
     /\ (Len(frames') > Len(frames) /\ frames'[Len(frames')].kind = "Block") =>
          (\/ ret'.op = "BlockCall"
           \/ ret'.op = "Activate" /\ blk.Activatable)]_vars

\* C16 witness: a block made by the block constructor has been activated
\* and handed back as the value.
C16_Witness ==
  /\ ret = Handed("Activate", nil, blk)
  /\ made.by = "block"
  /\ ~blk.Activatable

====
